---------------------------- MODULE Spec2Model ----------------------------
(***************************************************************************)
(* Model of the data-quality engine of eda-cli                             *)
(* (homeworks/HW04/eda-cli/src/eda_cli/core.py), of the CLI `report`       *)
(* command that drives it (homeworks/HW03/eda-cli/src/eda_cli/cli.py) and  *)
(* of the HTTP service built on it (homeworks/HW04/.../eda_cli/api.py).    *)
(*                                                                         *)
(* Spec: direct calls of the engine and the CLI on small datasets.         *)
(* SpecLong: the ranker on long datasets given by their null counts.       *)
(* SpecApi: the HTTP endpoints, one request at a time.                     *)
(* SpecConcurrent: the counting statements of handlers running together.   *)
(* SpecUploads: upload handlers running together, each with its own file.  *)
(* SpecInfo: get_missing_info, and the evaluator and the ranker given one   *)
(* bound.                                                                   *)
(*                                                                         *)
(* A DataFrame is a row count and a sequence of named, typed columns.  A   *)
(* float is an exact fraction [num, den]; the quotient 0/0 that pandas and *)
(* numpy produce for a zero-row frame is the fraction with den = 0 (NaN),  *)
(* and every ordered comparison with NaN is false.  With the row counts    *)
(* and the 4-decimal thresholds used here two distinct fractions differ by *)
(* far more than one double-precision ulp, so exact comparison of the      *)
(* fractions agrees with the comparison of the doubles.                    *)
(***************************************************************************)
EXTENDS Integers, Sequences, FiniteSets

(* ------------------------------ bounds --------------------------------- *)

MaxRows == 3

MaxCols == 2

MaxCells == 6

(* ------------------------- program constants --------------------------- *)

\* round(x, 4): four decimal digits
Scale == 10000

\* ------------------------------ floats ----------------------------------

Frac(n, d) == [num |-> n, den |-> d]

\* a / b on numpy integers: 0 / 0 is NaN (a warning, not an exception)
Div(a, b) == Frac(a, b)

IsNaN(x) == x.den = 0

\* x > y on floats: false when either side is NaN
Gt(x, y) == /\ ~IsNaN(x)
            /\ ~IsNaN(y)
            /\ x.num * y.den > y.num * x.den

\* x >= y on floats: false when either side is NaN
Ge(x, y) == /\ ~IsNaN(x)
            /\ ~IsNaN(y)
            /\ x.num * y.den >= y.num * x.den

\* nearest integer to p / q (p >= 0, q > 0), ties to even
RoundHalfEven(p, q) ==
    LET f == p \div q
        r == p % q
    IN  IF 2 * r < q THEN f
        ELSE IF 2 * r > q THEN f + 1
        ELSE IF f % 2 = 0 THEN f ELSE f + 1

\* round(float(x), 4); round(nan, 4) is nan
round4(x) ==
    IF IsNaN(x) THEN x
    ELSE Frac(RoundHalfEven(x.num * Scale, x.den), Scale)

\* ----------------------------- DataFrame --------------------------------

\* the missing-value marker (None / NaN)
NaN == "NaN"

\* the exact zero of a numeric column
Zero == "0"

Names == <<"a", "b", "c", "d">>

Dtypes == {"int64", "float64", "object", "bool"}

\* the values a column of each dtype can hold; an int64 or bool column
\* cannot hold a missing value
ValuesOf(t) ==
    CASE t = "int64"   -> {Zero, "1"}
      [] t = "float64" -> {NaN, Zero, "1"}
      [] t = "object"  -> {NaN, "x", "y"}
      [] t = "bool"    -> {"False", "True"}

ColumnData(n) ==
    UNION { {[dtype |-> t, values |-> v] : v \in [1..n -> ValuesOf(t)]} : t \in Dtypes }

\* <<rows, columns>> of a frame: a frame parsed from CSV has at least one
\* column and may have no row (a header line alone)
Shapes == { s \in (0..MaxRows) \X (1..MaxCols) : s[1] * s[2] <= MaxCells }

Frames ==
    UNION { { [n_rows  |-> s[1],
               columns |-> [i \in 1..s[2] |->
                              [name   |-> Names[i],
                               dtype  |-> c[i].dtype,
                               values |-> c[i].values]]] :
              c \in [1..s[2] -> ColumnData(s[1])] } : s \in Shapes }

\* len(df)
len(d) == d.n_rows

\* df.columns, as the sequence of column names
columns(d) == [i \in 1..Len(d.columns) |-> d.columns[i].name]

\* the names of a sequence of columns
NamesOf(cs) == [i \in 1..Len(cs) |-> cs[i].name]

\* df[col].isnull().sum()
isnull_sum(c) == Cardinality({r \in 1..Len(c.values) : c.values[r] = NaN})

\* df[col].nunique(dropna=...)
nunique(c, dropna) ==
    LET seen == {c.values[r] : r \in 1..Len(c.values)}
    IN  Cardinality(IF dropna THEN seen \ {NaN} ELSE seen)

\* row r of the frame
Row(d, r) == [i \in 1..Len(d.columns) |-> d.columns[i].values[r]]

\* df.duplicated() if a missing value were unequal to a missing value
duplicated_nan_unequal(d) ==
    [r \in 1..d.n_rows |->
        \E q \in 1..(r - 1) :
            /\ Row(d, q) = Row(d, r)
            /\ \A i \in 1..Len(d.columns) : Row(d, r)[i] # NaN]

\* df.duplicated(): a row is marked when an earlier row equals it, a
\* missing value being equal to a missing value
duplicated(d) ==
    [r \in 1..d.n_rows |-> \E q \in 1..(r - 1) : Row(d, q) = Row(d, r)]

\* df.duplicated().sum()
duplicated_sum(d) ==
    LET dup == duplicated(d)
    IN  Cardinality({r \in 1..d.n_rows : dup[r]})

\* df.select_dtypes(include=...).columns
select_dtypes(d, include) ==
    LET Test(c) == c.dtype \in include
    IN  SelectSeq(d.columns, Test)

\* (df[col] == 0).sum()
zero_sum(c) == Cardinality({r \in 1..Len(c.values) : c.values[r] = Zero})

\* ------------------------ compute_quality_flags --------------------------

\* share >= missing_threshold
is_high_missing_inclusive(share, missing_threshold) == Ge(share, missing_threshold)

\* share > missing_threshold
is_high_missing(share, missing_threshold) == Gt(share, missing_threshold)

\* len(cols) > 1
has_any_off_by_one(cols) == Len(cols) > 1

\* len(cols) > 0
has_any(cols) == Len(cols) > 0

\* df[col].nunique(dropna=False) <= 1
is_constant_counting_nulls(c) == nunique(c, FALSE) <= 1

\* df[col].nunique(dropna=True) < 1
is_constant_strict(c) == nunique(c, TRUE) < 1

\* df[col].nunique(dropna=True) <= 1
is_constant(c) == nunique(c, TRUE) <= 1

\* df[col].nunique() >= high_cardinality_threshold
is_high_cardinality_inclusive(c, high_cardinality_threshold) ==
    nunique(c, TRUE) >= high_cardinality_threshold

\* df[col].nunique() > high_cardinality_threshold
is_high_cardinality(c, high_cardinality_threshold) ==
    nunique(c, TRUE) > high_cardinality_threshold

\* (df[col] == 0).sum() / df[col].count()
zero_share_of_non_null(c, n_rows) == Div(zero_sum(c), n_rows - isnull_sum(c))

\* (df[col] == 0).sum() / n_rows
zero_share_of(c, n_rows) == Div(zero_sum(c), n_rows)

\* the rounded share that is reported, compared with zero_threshold
is_high_zero_rounded(share, zero_threshold) == Gt(round4(share), zero_threshold)

\* zero_share > zero_threshold
is_high_zero(share, zero_threshold) == Gt(share, zero_threshold)

\* the penalties with the high-missing penalty of 30 instead of 20
penalties_of_missing_30(flags) ==
      (IF flags.has_high_missing THEN 30 ELSE 0)
    + (IF flags.has_duplicates THEN 15 ELSE 0)
    + (IF flags.has_constant_columns THEN 10 ELSE 0)
    + (IF flags.has_high_cardinality_categoricals THEN 10 ELSE 0)
    + (IF flags.has_many_zero_values THEN 5 ELSE 0)

\* the penalties with the duplicate penalty of 10 instead of 15
penalties_of_duplicates_10(flags) ==
      (IF flags.has_high_missing THEN 20 ELSE 0)
    + (IF flags.has_duplicates THEN 10 ELSE 0)
    + (IF flags.has_constant_columns THEN 10 ELSE 0)
    + (IF flags.has_high_cardinality_categoricals THEN 10 ELSE 0)
    + (IF flags.has_many_zero_values THEN 5 ELSE 0)

\* the sum of the penalties of the raised flags
penalties_of(flags) ==
      (IF flags.has_high_missing THEN 20 ELSE 0)
    + (IF flags.has_duplicates THEN 15 ELSE 0)
    + (IF flags.has_constant_columns THEN 10 ELSE 0)
    + (IF flags.has_high_cardinality_categoricals THEN 10 ELSE 0)
    + (IF flags.has_many_zero_values THEN 5 ELSE 0)

\* max(0, 100 + penalties)
score_of_added(penalties) ==
    IF 100 + penalties > 0 THEN 100 + penalties ELSE 0

\* max(0, 100 - penalties)
score_of(penalties) ==
    IF 100 - penalties > 0 THEN 100 - penalties ELSE 0

compute_quality_flags(d, missing_threshold, high_cardinality_threshold, zero_threshold) ==
    LET n_rows == len(d)
        HighMissing(c) ==
            is_high_missing(Div(isnull_sum(c), n_rows), missing_threshold)
        cols_high_missing == NamesOf(SelectSeq(d.columns, HighMissing))
        dup_count == duplicated_sum(d)
        constant_cols == NamesOf(SelectSeq(d.columns, is_constant))
        cat_cols == select_dtypes(d, {"object", "category"})
        HighCard(c) == is_high_cardinality(c, high_cardinality_threshold)
        high_card_cols == NamesOf(SelectSeq(cat_cols, HighCard))
        numeric_cols == select_dtypes(d, {"int64", "float64"})
        HighZero(c) == is_high_zero(zero_share_of(c, n_rows), zero_threshold)
        high_zero_cols == NamesOf(SelectSeq(numeric_cols, HighZero))
        zero_shares ==
            [nm \in {numeric_cols[i].name : i \in 1..Len(numeric_cols)} |->
                LET c == CHOOSE x \in {numeric_cols[i] : i \in 1..Len(numeric_cols)} :
                             x.name = nm
                IN  round4(zero_share_of(c, n_rows))]
        flags ==
            [has_high_missing                  |-> has_any(cols_high_missing),
             high_missing_columns              |-> cols_high_missing,
             has_duplicates                    |-> dup_count > 0,
             duplicate_count                   |-> dup_count,
             has_constant_columns              |-> has_any(constant_cols),
             constant_columns                  |-> constant_cols,
             has_high_cardinality_categoricals |-> has_any(high_card_cols),
             high_cardinality_columns          |-> high_card_cols,
             has_many_zero_values              |-> has_any(high_zero_cols),
             high_zero_columns                 |-> high_zero_cols,
             zero_shares                       |-> zero_shares]
    IN  [has_high_missing                  |-> flags.has_high_missing,
         high_missing_columns              |-> flags.high_missing_columns,
         has_duplicates                    |-> flags.has_duplicates,
         duplicate_count                   |-> flags.duplicate_count,
         has_constant_columns              |-> flags.has_constant_columns,
         constant_columns                  |-> flags.constant_columns,
         has_high_cardinality_categoricals |-> flags.has_high_cardinality_categoricals,
         high_cardinality_columns          |-> flags.high_cardinality_columns,
         has_many_zero_values              |-> flags.has_many_zero_values,
         high_zero_columns                 |-> flags.high_zero_columns,
         zero_shares                       |-> flags.zero_shares,
         quality_score                     |-> score_of(penalties_of(flags))]

\* ----------------------- get_problematic_columns -------------------------

\* missing_share > min_missing_share
is_problematic_strict(share, min_missing_share) == Gt(share, min_missing_share)

\* missing_share >= min_missing_share
is_problematic(share, min_missing_share) == Ge(share, min_missing_share)

\* the list with x placed behind every entry whose missing_share is not
\* smaller: one step of the stable descending sort
InsertDesc(t, x) ==
    LET k == Cardinality({i \in 1..Len(t) : Ge(t[i].missing_share, x.missing_share)})
    IN  SubSeq(t, 1, k) \o <<x>> \o SubSeq(t, k + 1, Len(t))

RECURSIVE sorted_desc(_)
\* sorted(problematic, key=lambda x: x["missing_share"], reverse=True)
sorted_desc(s) ==
    IF s = <<>> THEN <<>>
    ELSE InsertDesc(sorted_desc(SubSeq(s, 1, Len(s) - 1)), s[Len(s)])

\* the loop and the sort of get_problematic_columns, given each column's
\* name and df[col].isnull().sum(); numpy rounds x to 4 decimals as
\* rint(x * 10000) / 10000, which is round4 where x * 10000 is no tie
problematic_of(counts, n_rows, min_missing_share) ==
    LET Problematic(c) ==
            is_problematic(Div(c.missing_count, n_rows), min_missing_share)
        picked == SelectSeq(counts, Problematic)
        problematic ==
            [i \in 1..Len(picked) |->
                [column        |-> picked[i].column,
                 missing_share |-> round4(Div(picked[i].missing_count, n_rows)),
                 missing_count |-> picked[i].missing_count]]
    IN  sorted_desc(problematic)

\* get_problematic_columns that ignores its bound and uses the default 0.1
get_problematic_columns_default(d, min_missing_share) ==
    problematic_of([i \in 1..Len(d.columns) |->
                       [column        |-> d.columns[i].name,
                        missing_count |-> isnull_sum(d.columns[i])]],
                   len(d), Frac(1, 10))

get_problematic_columns(d, min_missing_share) ==
    problematic_of([i \in 1..Len(d.columns) |->
                       [column        |-> d.columns[i].name,
                        missing_count |-> isnull_sum(d.columns[i])]],
                   len(d), min_missing_share)

\* missing_counts.sum() over the first k columns
RECURSIVE missing_counts_sum(_, _)
missing_counts_sum(d, k) ==
    IF k = 0 THEN 0
    ELSE missing_counts_sum(d, k - 1) + isnull_sum(d.columns[k])

\* get_missing_info that lists every column, with or without nulls
get_missing_info_all(d) ==
    LET with_missing == {i \in 1..Len(d.columns) : isnull_sum(d.columns[i]) >= 0}
    IN  [total_missing        |-> missing_counts_sum(d, Len(d.columns)),
         columns_with_missing |-> Cardinality(with_missing),
         details |->
             [nm \in {d.columns[i].name : i \in with_missing} |->
                 LET c == CHOOSE c \in {d.columns[i] : i \in with_missing} : c.name = nm
                 IN  [count   |-> isnull_sum(c),
                      percent |-> IF len(d) = 0 THEN Div(0, 0)
                                  ELSE Frac(RoundHalfEven(isnull_sum(c) * 100 * 100,
                                                          len(d)), 100)]]]

\* get_missing_info(df); percent is (count / len(df) * 100).round(2), a
\* fraction over 100, and details maps a column name to its entry
get_missing_info(d) ==
    LET with_missing == {i \in 1..Len(d.columns) : isnull_sum(d.columns[i]) > 0}
    IN  [total_missing        |-> missing_counts_sum(d, Len(d.columns)),
         columns_with_missing |-> Cardinality(with_missing),
         details |->
             [nm \in {d.columns[i].name : i \in with_missing} |->
                 LET c == CHOOSE c \in {d.columns[i] : i \in with_missing} : c.name = nm
                 IN  [count   |-> isnull_sum(c),
                      percent |-> IF len(d) = 0 THEN Div(0, 0)
                                  ELSE Frac(RoundHalfEven(isnull_sum(c) * 100 * 100,
                                                          len(d)), 100)]]]

\* ------------------------------- inputs ----------------------------------

\* defaults of compute_quality_flags
DefaultMissingThreshold == Frac(3, 10)

DefaultHighCardinalityThreshold == 50

DefaultZeroThreshold == Frac(1, 2)

\* default of the --min-missing-share option of `report`
DefaultMinMissingShare == Frac(1, 10)

\* thresholds a caller may pass; nothing restricts them to their documented
\* domains
MissingThresholds == {Frac(-1, 10), DefaultMissingThreshold, Frac(1, 2)}

HighCardinalityThresholds == {0, 1, DefaultHighCardinalityThreshold}

ZeroThresholds == {Frac(3333, Scale), DefaultZeroThreshold, Frac(3, 2)}

MinMissingShares == {DefaultMinMissingShare, Frac(1, 2)}

\* the threshold triples of a call: the defaults, the defaults with one
\* threshold overridden, and all three overridden
ThresholdChoices ==
    { t \in MissingThresholds \X HighCardinalityThresholds \X ZeroThresholds :
        \/ Cardinality({i \in 1..3 :
               t[i] # <<DefaultMissingThreshold,
                        DefaultHighCardinalityThreshold,
                        DefaultZeroThreshold>>[i]}) <= 1
        \/ t = <<Frac(1, 2), 1, Frac(3333, Scale)>> }

\* ------------------------------- state -----------------------------------

VARIABLES
    df,             \* the dataset
    op,             \* the operation that ran last
    args,           \* its arguments
    ret,            \* its outcome
    request_stats,  \* the counters of the HTTP service
    handlers        \* the HTTP handlers in flight, with their locals

vars == <<df, op, args, ret, request_stats, handlers>>

\* None in a field that otherwise holds one value
None == <<>>

\* request_stats as the module api is loaded
InitialStats ==
    [total_requests    |-> 0,
     total_latency_ms  |-> 0,
     endpoint_calls    |-> [e \in {} |-> 0],
     last_ok_for_model |-> None,
     errors            |-> 0]

Init ==
    /\ request_stats = InitialStats
    /\ handlers = <<>>
    /\ df \in Frames
    /\ op = "none"
    /\ args = [missing_threshold          |-> DefaultMissingThreshold,
               high_cardinality_threshold |-> DefaultHighCardinalityThreshold,
               zero_threshold             |-> DefaultZeroThreshold]
    /\ ret = [status |-> "none"]

\* pd.read_csv handed the path without the existence check: the file is
\* opened and parsed whether or not the caller's path names it
load_csv_unchecked(exists, d) ==
    [status |-> "returned", parsed |-> TRUE, df |-> d]

\* load_csv(filepath): `exists` tells whether the path names a file, d is
\* what pd.read_csv makes of the file; `parsed` records that pd.read_csv
\* was called
load_csv(exists, d) ==
    IF ~exists
    THEN [status |-> "raised", error |-> "FileNotFoundError", parsed |-> FALSE]
    ELSE [status |-> "returned", parsed |-> TRUE, df |-> d]

\* a direct call core.load_csv(filepath)
LoadCsv ==
    \E exists \in BOOLEAN :
        /\ op' = "load_csv"
        /\ args' = [exists |-> exists]
        /\ ret' = load_csv(exists, df)
        /\ UNCHANGED <<df, request_stats, handlers>>

\* compute_quality_flags emptying the frame it was given (df.drop in place)
ComputeQualityFlagsInPlace ==
    \E t \in ThresholdChoices :
        /\ op' = "compute_quality_flags"
        /\ args' = [missing_threshold          |-> t[1],
                    high_cardinality_threshold |-> t[2],
                    zero_threshold             |-> t[3]]
        /\ ret' = [status  |-> "returned",
                   quality |-> compute_quality_flags(df, t[1], t[2], t[3])]
        /\ df' = [n_rows  |-> 0,
                  columns |-> [i \in 1..Len(df.columns) |->
                                 [df.columns[i] EXCEPT !.values = <<>>]]]
        /\ UNCHANGED <<request_stats, handlers>>

\* a direct call core.compute_quality_flags(df, ...)
ComputeQualityFlags ==
    \E t \in ThresholdChoices :
        /\ op' = "compute_quality_flags"
        /\ args' = [missing_threshold          |-> t[1],
                    high_cardinality_threshold |-> t[2],
                    zero_threshold             |-> t[3]]
        /\ ret' = [status  |-> "returned",
                   quality |-> compute_quality_flags(df, t[1], t[2], t[3])]
        /\ UNCHANGED <<df, request_stats, handlers>>

\* the CLI command `report FILEPATH --min-missing-share M`: FILEPATH either
\* names the CSV file holding df or names no file
Report ==
    \E exists \in BOOLEAN, mms \in MinMissingShares :
        /\ op' = "report"
        /\ args' = [missing_threshold          |-> DefaultMissingThreshold,
                    high_cardinality_threshold |-> DefaultHighCardinalityThreshold,
                    zero_threshold             |-> DefaultZeroThreshold,
                    exists                     |-> exists,
                    min_missing_share          |-> mms]
        /\ LET loaded == load_csv(exists, df)
           IN  ret' = IF loaded.status = "raised"
                      THEN [status |-> "raised", error |-> loaded.error]
                      ELSE [status      |-> "returned",
                            quality     |-> compute_quality_flags(loaded.df,
                                                DefaultMissingThreshold,
                                                DefaultHighCardinalityThreshold,
                                                DefaultZeroThreshold),
                            problematic |-> get_problematic_columns(loaded.df, mms)]
        /\ UNCHANGED <<df, request_stats, handlers>>

Next == ComputeQualityFlags \/ Report \/ LoadCsv

Spec == Init /\ [][Next]_vars

\* -------------------- missing values and the two bounds ------------------

\* a direct call core.get_missing_info(df)
GetMissingInfo ==
    /\ op' = "get_missing_info"
    /\ args' = [df |-> "df"]
    /\ ret' = [status |-> "returned", info |-> get_missing_info(df)]
    /\ UNCHANGED <<df, request_stats, handlers>>

\* the bounds handed to both the evaluator and the ranker
SharedBounds == {Frac(0, 1), DefaultMissingThreshold, Frac(1, 2)}

\* compute_quality_flags(df, missing_threshold=t) followed by
\* get_problematic_columns(df, min_missing_share=t) on the same dataset
FlagAndRank ==
    \E t \in SharedBounds :
        /\ op' = "flag_and_rank"
        /\ args' = [missing_threshold          |-> t,
                    high_cardinality_threshold |-> DefaultHighCardinalityThreshold,
                    zero_threshold             |-> DefaultZeroThreshold,
                    min_missing_share          |-> t]
        /\ ret' = [status      |-> "returned",
                   quality     |-> compute_quality_flags(df, t,
                                       DefaultHighCardinalityThreshold,
                                       DefaultZeroThreshold),
                   problematic |-> get_problematic_columns(df, t)]
        /\ UNCHANGED <<df, request_stats, handlers>>

NextInfo == GetMissingInfo \/ FlagAndRank

SpecInfo == Init /\ [][NextInfo]_vars

\* ----------------------- ranking of long datasets ------------------------

\* row counts at which two different missing shares round to the same four
\* decimals; no count / n_rows * 10000 is a rounding tie for these
LongRows == {30000, 70000}

MaxMissing == 4

\* a long dataset, given by what get_problematic_columns reads of it: the row
\* count and each column's df[col].isnull().sum()
LongFrames ==
    UNION { { [n_rows |-> n,
               counts |-> [i \in 1..k |-> [column        |-> Names[i],
                                           missing_count |-> m[i]]]] :
                m \in [1..k -> 0..MaxMissing] } :
            n \in LongRows, k \in 1..MaxCols }

LongMinMissingShares == {Frac(0, 1), Frac(1, Scale)}

InitLong ==
    /\ request_stats = InitialStats
    /\ handlers = <<>>
    /\ df \in LongFrames
    /\ op = "none"
    /\ args = [min_missing_share |-> DefaultMinMissingShare]
    /\ ret = [status |-> "none"]

\* a direct call core.get_problematic_columns(df, min_missing_share)
GetProblematicColumns ==
    \E mms \in LongMinMissingShares :
        /\ op' = "get_problematic_columns"
        /\ args' = [min_missing_share |-> mms]
        /\ ret' = [status      |-> "returned",
                   problematic |-> problematic_of(df.counts, df.n_rows, mms)]
        /\ UNCHANGED <<df, request_stats, handlers>>

NextLong == GetProblematicColumns

SpecLong == InitLong /\ [][NextLong]_vars

\* ----------------------------- HTTP service ------------------------------

MaxRequests == 2

\* perf_counter differences, in milliseconds
Latencies == {1, 2}

\* x - y on floats that are not NaN
Sub(x, y) == Frac(x.num * y.den - y.num * x.den, x.den * y.den)

\* max(0.0, min(1.0, score))
clamp(score) ==
    IF Gt(score, Frac(1, 1)) THEN Frac(1, 1)
    ELSE IF Gt(Frac(0, 1), score) THEN Frac(0, 1)
    ELSE score

\* d.get(key, 0)
dict_get(d, key) == IF key \in DOMAIN d THEN d[key] ELSE 0

\* d[key] = value
dict_set(d, key, value) ==
    [k \in DOMAIN d \cup {key} |-> IF k = key THEN value ELSE d[k]]

\* the opening of a handler that counts the request but not its endpoint
count_request_total_only(stats, endpoint) ==
    [stats EXCEPT !.total_requests = @ + 1]

\* the two statements that open every counted handler
count_request(stats, endpoint) ==
    [stats EXCEPT !.total_requests = @ + 1,
                  !.endpoint_calls =
                      dict_set(@, endpoint, dict_get(@, endpoint) + 1)]

\* a rejection that is not counted
count_error_forgotten(stats) == stats

\* request_stats["errors"] += 1
count_error(stats) == [stats EXCEPT !.errors = @ + 1]

\* a success that adds its latency and leaves last_ok_for_model alone
record_success_latency_only(stats, latency_ms, ok_for_model) ==
    [stats EXCEPT !.total_latency_ms = @ + latency_ms]

\* request_stats["total_latency_ms"] += latency_ms and
\* request_stats["last_ok_for_model"] = ok_for_model
record_success(stats, latency_ms, ok_for_model) ==
    [stats EXCEPT !.total_latency_ms = @ + latency_ms,
                  !.last_ok_for_model = <<ok_for_model>>]

\* the bodies posted to /quality: the aggregate features in and around the
\* limits of the scoring rules, and one body per violated field constraint
QualityBodies ==
    { [n_rows |-> nr, n_cols |-> nc, max_missing_share |-> m,
       numeric_cols |-> k[1], categorical_cols |-> k[2]] :
        nr \in {999, 1000}, nc \in {100, 101},
        m \in {Frac(0, 10), Frac(3, 10), Frac(10, 10)},
        k \in {<<0, 1>>, <<1, 0>>, <<1, 1>>} }
    \cup
    { [n_rows |-> f[1], n_cols |-> f[2], max_missing_share |-> f[3],
       numeric_cols |-> f[4], categorical_cols |-> f[5]] :
        f \in { <<-1, 100, Frac(0, 10), 1, 1>>,
                <<1000, -1, Frac(0, 10), 1, 1>>,
                <<1000, 100, Frac(-1, 10), 1, 1>>,
                <<1000, 100, Frac(11, 10), 1, 1>>,
                <<1000, 100, Frac(0, 10), -1, 1>>,
                <<1000, 100, Frac(0, 10), 1, -1>> } }

\* the request model with the constraint on n_rows left out
QualityRequestAnyRows(body) ==
    /\ body.n_cols >= 0
    /\ Ge(body.max_missing_share, Frac(0, 1))
    /\ Ge(Frac(1, 1), body.max_missing_share)
    /\ body.numeric_cols >= 0
    /\ body.categorical_cols >= 0

\* the body passes the field constraints of the request model
QualityRequest(body) ==
    /\ body.n_rows >= 0
    /\ body.n_cols >= 0
    /\ Ge(body.max_missing_share, Frac(0, 1))
    /\ Ge(Frac(1, 1), body.max_missing_share)
    /\ body.numeric_cols >= 0
    /\ body.categorical_cols >= 0

\* the score of /quality with the small-dataset penalty at n_rows <= 1000
feature_score_inclusive(req) ==
    LET s1 == Sub(Frac(1, 1), req.max_missing_share)
        s2 == IF req.n_rows <= 1000 THEN Sub(s1, Frac(2, 10)) ELSE s1
        s3 == IF req.n_cols > 100 THEN Sub(s2, Frac(1, 10)) ELSE s2
        s4 == IF req.numeric_cols = 0 /\ req.categorical_cols > 0
              THEN Sub(s3, Frac(1, 10)) ELSE s3
        s5 == IF req.categorical_cols = 0 /\ req.numeric_cols > 0
              THEN Sub(s4, Frac(5, 100)) ELSE s4
    IN  clamp(s5)

\* the score of /quality, after clamping
feature_score(req) ==
    LET s1 == Sub(Frac(1, 1), req.max_missing_share)
        s2 == IF req.n_rows < 1000 THEN Sub(s1, Frac(2, 10)) ELSE s1
        s3 == IF req.n_cols > 100 THEN Sub(s2, Frac(1, 10)) ELSE s2
        s4 == IF req.numeric_cols = 0 /\ req.categorical_cols > 0
              THEN Sub(s3, Frac(1, 10)) ELSE s3
        s5 == IF req.categorical_cols = 0 /\ req.numeric_cols > 0
              THEN Sub(s4, Frac(5, 100)) ELSE s4
    IN  clamp(s5)

\* ok_for_model = score >= 0.7
is_ok_for_model(score) == Ge(score, Frac(7, 10))

\* POST /quality
Quality ==
    \E body \in QualityBodies, latency_ms \in Latencies :
        /\ op' = "POST /quality"
        /\ args' = body
        /\ IF ~QualityRequest(body)
           THEN /\ ret' = [status_code |-> 422]
                /\ UNCHANGED request_stats
           ELSE /\ request_stats.total_requests < MaxRequests
                /\ LET score == feature_score(body)
                       ok_for_model == is_ok_for_model(score)
                   IN  /\ ret' =
                              [status_code   |-> 200,
                               ok_for_model  |-> ok_for_model,
                               quality_score |-> score,
                               message       |-> IF ok_for_model
                                                 THEN "can train"
                                                 ELSE "needs work",
                               latency_ms    |-> latency_ms,
                               flags |->
                                   [too_few_rows     |-> body.n_rows < 1000,
                                    too_many_columns |-> body.n_cols > 100,
                                    too_many_missing |->
                                        Gt(body.max_missing_share, Frac(5, 10)),
                                    no_numeric_columns |-> body.numeric_cols = 0,
                                    no_categorical_columns |->
                                        body.categorical_cols = 0],
                               dataset_shape |-> [n_rows |-> body.n_rows,
                                                  n_cols |-> body.n_cols]]
                       /\ request_stats' =
                              record_success(
                                  count_request(request_stats, "quality"),
                                  latency_ms, ok_for_model)
        /\ UNCHANGED <<df, handlers>>

\* the content types the upload handlers accept
AcceptedContentTypes ==
    {"text/csv", "application/vnd.ms-excel", "application/octet-stream"}

ContentTypes == {"text/csv", "application/json"}

\* what pd.read_csv makes of an uploaded body: an exception, or a frame of
\* one float column with no row (a header line alone) or two rows
CsvBodies ==
    {[parses |-> FALSE]}
    \cup { [parses |-> TRUE, frame |-> d] :
             d \in { f \in Frames : /\ Len(f.columns) = 1
                                    /\ f.n_rows \in {0, 2}
                                    /\ f.columns[1].dtype = "float64" } }

Uploads == { [content_type |-> t, body |-> b] : t \in ContentTypes, b \in CsvBodies }

\* df.empty taken as "has no column" alone
empty_no_columns(d) == Len(d.columns) = 0

\* df.empty: no row or no column
empty(d) == d.n_rows = 0 \/ Len(d.columns) = 0

\* the checks that open both upload handlers: the error that ends the
\* request with 400, or "ok" with the parsed frame
parse_upload(file) ==
    IF file.content_type \notin AcceptedContentTypes
    THEN [error |-> "Invalid content type"]
    ELSE IF ~file.body.parses
    THEN [error |-> "read_csv failed"]
    ELSE IF empty(file.body.frame)
    THEN [error |-> "Empty DataFrame"]
    ELSE [error |-> "ok", df |-> file.body.frame]

\* quality_score / 100.0 without the division
normalized_score_percent(quality_score) == clamp(Frac(quality_score, 1))

\* score = quality_flags.get("quality_score", 0) / 100.0, clamped to [0, 1]
normalized_score(quality_score) == clamp(Frac(quality_score, 100))

\* the five booleans of the report
flags_bool(quality_flags) ==
    [has_high_missing                  |-> quality_flags.has_high_missing,
     has_duplicates                    |-> quality_flags.has_duplicates,
     has_constant_columns              |-> quality_flags.has_constant_columns,
     has_high_cardinality_categoricals |->
         quality_flags.has_high_cardinality_categoricals,
     has_many_zero_values              |-> quality_flags.has_many_zero_values]

\* POST /quality-from-csv; core_calls counts the calls of
\* compute_quality_flags the request made
QualityFromCsv ==
    \E file \in Uploads, latency_ms \in Latencies :
        /\ request_stats.total_requests < MaxRequests
        /\ op' = "POST /quality-from-csv"
        /\ args' = file
        /\ LET counted == count_request(request_stats, "quality-from-csv")
               parsed == parse_upload(file)
           IN  IF parsed.error # "ok"
               THEN /\ request_stats' = count_error(counted)
                    /\ ret' = [status_code |-> 400,
                               detail      |-> parsed.error,
                               core_calls  |-> 0]
               ELSE LET quality_flags ==
                            compute_quality_flags(parsed.df,
                                DefaultMissingThreshold,
                                DefaultHighCardinalityThreshold,
                                DefaultZeroThreshold)
                        score == normalized_score(quality_flags.quality_score)
                        ok_for_model == is_ok_for_model(score)
                    IN  /\ request_stats' =
                               record_success(counted, latency_ms, ok_for_model)
                        /\ ret' =
                               [status_code   |-> 200,
                                core_calls    |-> 1,
                                ok_for_model  |-> ok_for_model,
                                quality_score |-> score,
                                message       |-> IF ok_for_model
                                                  THEN "can train"
                                                  ELSE "needs work",
                                latency_ms    |-> latency_ms,
                                flags         |-> flags_bool(quality_flags),
                                dataset_shape |->
                                    [n_rows |-> len(parsed.df),
                                     n_cols |-> Len(parsed.df.columns)]]
        /\ UNCHANGED <<df, handlers>>

\* POST /quality-flags-from-csv
QualityFlagsFromCsv ==
    \E file \in Uploads, latency_ms \in Latencies :
        /\ request_stats.total_requests < MaxRequests
        /\ op' = "POST /quality-flags-from-csv"
        /\ args' = file
        /\ LET counted == count_request(request_stats, "quality-flags-from-csv")
               parsed == parse_upload(file)
           IN  IF parsed.error # "ok"
               THEN /\ request_stats' = count_error(counted)
                    /\ ret' = [status_code |-> 400,
                               detail      |-> parsed.error,
                               core_calls  |-> 0]
               ELSE LET quality_flags ==
                            compute_quality_flags(parsed.df,
                                DefaultMissingThreshold,
                                DefaultHighCardinalityThreshold,
                                DefaultZeroThreshold)
                    IN  /\ request_stats' =
                               [counted EXCEPT
                                   !.total_latency_ms = @ + latency_ms]
                        /\ ret' =
                               [status_code   |-> 200,
                                core_calls    |-> 1,
                                flags         |->
                                    [k \in DOMAIN quality_flags \ {"quality_score"}
                                        |-> quality_flags[k]],
                                quality_score |-> quality_flags.quality_score,
                                latency_ms    |-> latency_ms,
                                dataset_shape |->
                                    [n_rows |-> len(parsed.df),
                                     n_cols |-> Len(parsed.df.columns)]]
        /\ UNCHANGED <<df, handlers>>

\* GET /health counting itself like the other handlers
HealthCounted ==
    /\ request_stats.total_requests < MaxRequests
    /\ op' = "GET /health"
    /\ args' = [path |-> "/health"]
    /\ ret' = [status_code |-> 200, status |-> "ok",
               service |-> "dataset-quality", version |-> "0.3.0"]
    /\ request_stats' = count_request(request_stats, "health")
    /\ UNCHANGED <<df, handlers>>

\* GET /health
Health ==
    /\ op' = "GET /health"
    /\ args' = [path |-> "/health"]
    /\ ret' = [status_code |-> 200, status |-> "ok",
               service |-> "dataset-quality", version |-> "0.3.0"]
    /\ UNCHANGED <<df, request_stats, handlers>>

\* GET /metrics; round(avg_latency, 2) is exact in hundredths
Metrics ==
    /\ op' = "GET /metrics"
    /\ args' = [path |-> "/metrics"]
    /\ ret' = [status_code       |-> 200,
               total_requests    |-> request_stats.total_requests,
               avg_latency_ms    |->
                   IF request_stats.total_requests > 0
                   THEN Frac(RoundHalfEven(request_stats.total_latency_ms * 100,
                                           request_stats.total_requests), 100)
                   ELSE Frac(0, 100),
               endpoint_calls    |-> request_stats.endpoint_calls,
               last_ok_for_model |-> request_stats.last_ok_for_model,
               errors            |-> request_stats.errors]
    /\ UNCHANGED <<df, request_stats, handlers>>

\* the service as it starts: no dataset is held between requests
InitApi ==
    /\ df = [n_rows |-> 0, columns |-> <<>>]
    /\ op = "none"
    /\ args = [path |-> "none"]
    /\ ret = [status_code |-> 0]
    /\ request_stats = InitialStats
    /\ handlers = <<>>

\* requests handled one at a time
NextApi == Quality \/ QualityFromCsv \/ QualityFlagsFromCsv \/ Health \/ Metrics

SpecApi == InitApi /\ [][NextApi]_vars

\* ------------------------ concurrent requests ----------------------------

\* the endpoints whose handlers count themselves in request_stats
CountedEndpoints == {"quality", "quality-from-csv", "quality-flags-from-csv"}

\* the handlers declared `async def`: they run on the event loop and hold
\* it from their first statement to their last, having no await between
AsyncEndpoints == {"quality-from-csv", "quality-flags-from-csv"}

\* handler i may take a step: `def quality` runs in a worker thread of its
\* own, an async handler only while no other async handler is under way
CanRun(i) ==
    \/ handlers[i].endpoint \notin AsyncEndpoints
    \/ \A j \in DOMAIN handlers \ {i} :
           \/ handlers[j].endpoint \notin AsyncEndpoints
           \/ handlers[j].pc \in {"start", "done"}

\* up to MaxRequests requests have arrived and none has started
InitConcurrent ==
    /\ df = [n_rows |-> 0, columns |-> <<>>]
    /\ op = "none"
    /\ args = [path |-> "none"]
    /\ ret = [status_code |-> 0]
    /\ request_stats = InitialStats
    /\ handlers \in UNION { [1..n -> { [endpoint |-> e, pc |-> "start", tmp |-> 0] :
                                         e \in CountedEndpoints }] :
                             n \in 1..MaxRequests }

\* request_stats["total_requests"] += 1, the load
ReadTotal(i) ==
    /\ handlers[i].pc = "start"
    /\ CanRun(i)
    /\ handlers' = [handlers EXCEPT ![i].pc = "total_read",
                                    ![i].tmp = request_stats.total_requests]
    /\ UNCHANGED <<df, op, args, ret, request_stats>>

\* request_stats["total_requests"] += 1, the store
WriteTotal(i) ==
    /\ handlers[i].pc = "total_read"
    /\ request_stats' = [request_stats EXCEPT
                             !.total_requests = handlers[i].tmp + 1]
    /\ handlers' = [handlers EXCEPT ![i].pc = "total_written"]
    /\ UNCHANGED <<df, op, args, ret>>

\* request_stats["endpoint_calls"].get(endpoint, 0)
ReadCalls(i) ==
    /\ handlers[i].pc = "total_written"
    /\ handlers' = [handlers EXCEPT
                        ![i].pc = "calls_read",
                        ![i].tmp = dict_get(request_stats.endpoint_calls,
                                            handlers[i].endpoint)]
    /\ UNCHANGED <<df, op, args, ret, request_stats>>

\* request_stats["endpoint_calls"][endpoint] = ... + 1
WriteCalls(i) ==
    /\ handlers[i].pc = "calls_read"
    /\ request_stats' = [request_stats EXCEPT
                             !.endpoint_calls =
                                 dict_set(@, handlers[i].endpoint,
                                          handlers[i].tmp + 1)]
    /\ handlers' = [handlers EXCEPT ![i].pc = "counted"]
    /\ UNCHANGED <<df, op, args, ret>>

\* the rest of the handler: an upload is refused with 400 and counted as an
\* error, or the request succeeds and adds its latency
Respond(i) ==
    /\ handlers[i].pc = "counted"
    /\ \/ /\ handlers[i].endpoint \in AsyncEndpoints
          /\ request_stats' = count_error(request_stats)
       \/ \E latency_ms \in Latencies :
              request_stats' = [request_stats EXCEPT
                                   !.total_latency_ms = @ + latency_ms]
    /\ handlers' = [handlers EXCEPT ![i].pc = "done"]
    /\ UNCHANGED <<df, op, args, ret>>

NextConcurrent ==
    \/ \E i \in DOMAIN handlers : ReadTotal(i)
    \/ \E i \in DOMAIN handlers : WriteTotal(i)
    \/ \E i \in DOMAIN handlers : ReadCalls(i)
    \/ \E i \in DOMAIN handlers : WriteCalls(i)
    \/ \E i \in DOMAIN handlers : Respond(i)

SpecConcurrent == InitConcurrent /\ [][NextConcurrent]_vars

\* -------------------------- concurrent uploads ---------------------------

\* the files uploaded together: text/csv bodies that parse to a header
\* alone, to a clean column, to a column of zeros and to a column of nulls
ConcurrentUploads ==
    { f \in Uploads :
        /\ f.content_type = "text/csv"
        /\ f.body.parses
        /\ \/ f.body.frame.n_rows = 0
           \/ f.body.frame.columns[1].values
                  \in {<<"1", Zero>>, <<Zero, Zero>>, <<NaN, NaN>>} }

\* up to MaxRequests uploads have arrived, each with its own file; df is
\* the handler's local variable, unbound until pd.read_csv returns
InitUploads ==
    /\ df = [n_rows |-> 0, columns |-> <<>>]
    /\ op = "none"
    /\ args = [path |-> "none"]
    /\ ret = [status_code |-> 0]
    /\ request_stats = InitialStats
    /\ handlers \in
           UNION { [1..n -> { [endpoint |-> e, pc |-> "start", tmp |-> 0,
                               file |-> f,
                               df |-> [n_rows |-> 0, columns |-> <<>>],
                               response |-> [status_code |-> 0]] :
                               e \in AsyncEndpoints, f \in ConcurrentUploads }] :
                   n \in 1..MaxRequests }

\* the frame of the first request, kept for all requests
cached_frame(i) == handlers[1].df

\* the local df of handler i
local_frame(i) == handlers[i].df

\* the checks and pd.read_csv of an upload handler: the request ends with
\* 400, or the parsed frame is bound to the handler's local df
Parse(i) ==
    /\ handlers[i].pc = "counted"
    /\ LET parsed == parse_upload(handlers[i].file)
       IN  IF parsed.error # "ok"
           THEN /\ request_stats' = count_error(request_stats)
                /\ handlers' = [handlers EXCEPT
                                    ![i].pc = "done",
                                    ![i].response = [status_code |-> 400,
                                                     detail      |-> parsed.error]]
           ELSE /\ handlers' = [handlers EXCEPT ![i].pc = "parsed",
                                                ![i].df = parsed.df]
                /\ UNCHANGED request_stats
    /\ UNCHANGED <<df, op, args, ret>>

\* compute_quality_flags(df) and the answer of an upload handler
Evaluate(i) ==
    /\ handlers[i].pc = "parsed"
    /\ \E latency_ms \in Latencies :
           LET quality_flags ==
                   compute_quality_flags(local_frame(i),
                       DefaultMissingThreshold,
                       DefaultHighCardinalityThreshold,
                       DefaultZeroThreshold)
               score == normalized_score(quality_flags.quality_score)
               ok_for_model == is_ok_for_model(score)
           IN  IF handlers[i].endpoint = "quality-from-csv"
               THEN /\ request_stats' =
                           record_success(request_stats, latency_ms, ok_for_model)
                    /\ handlers' = [handlers EXCEPT
                           ![i].pc = "done",
                           ![i].response =
                               [status_code   |-> 200,
                                ok_for_model  |-> ok_for_model,
                                quality_score |-> score,
                                latency_ms    |-> latency_ms,
                                flags         |-> flags_bool(quality_flags)]]
               ELSE /\ request_stats' =
                           [request_stats EXCEPT
                               !.total_latency_ms = @ + latency_ms]
                    /\ handlers' = [handlers EXCEPT
                           ![i].pc = "done",
                           ![i].response =
                               [status_code   |-> 200,
                                flags         |->
                                    [k \in DOMAIN quality_flags \ {"quality_score"}
                                        |-> quality_flags[k]],
                                quality_score |-> quality_flags.quality_score,
                                latency_ms    |-> latency_ms]]
    /\ UNCHANGED <<df, op, args, ret>>

NextUploads ==
    \/ \E i \in DOMAIN handlers : ReadTotal(i)
    \/ \E i \in DOMAIN handlers : WriteTotal(i)
    \/ \E i \in DOMAIN handlers : ReadCalls(i)
    \/ \E i \in DOMAIN handlers : WriteCalls(i)
    \/ \E i \in DOMAIN handlers : Parse(i)
    \/ \E i \in DOMAIN handlers : Evaluate(i)

SpecUploads == InitUploads /\ [][NextUploads]_vars

\* --------------------------- properties ----------------------------------

\* the evaluator has run on df and returned a report
Evaluated == op \in {"compute_quality_flags", "report"} /\ ret.status = "returned"

Q == ret.quality

NCols == Len(df.columns)

Nulls(i) == Cardinality({r \in 1..df.n_rows : df.columns[i].values[r] = NaN})

Zeros(i) == Cardinality({r \in 1..df.n_rows : df.columns[i].values[r] = Zero})

\* the distinct non-null values of column i
DistinctNonNull(i) == {df.columns[i].values[r] : r \in 1..df.n_rows} \ {NaN}

\* the distinct values of column i, a null counting as one value
DistinctWithNull(i) == {df.columns[i].values[r] : r \in 1..df.n_rows}

\* the names of the columns whose index is in I, in column order
InOrder(I) ==
    LET Member(nm) == \E i \in I : df.columns[i].name = nm
    IN  SelectSeq(columns(df), Member)

Abs(x) == IF x < 0 THEN -x ELSE x

B(flag) == IF flag THEN 1 ELSE 0

\* C1: on a dataset with at least one row the score is 100 minus 20, 15, 10,
\* 10 and 5 for the raised flags high-missing, duplicates, constant columns,
\* high-cardinality and many-zeros: a function of the five booleans alone.
C1_ScoreIsHundredMinusPenalties ==
    (Evaluated /\ df.n_rows >= 1) =>
        Q.quality_score = 100 - 20 * B(Q.has_high_missing)
                              - 15 * B(Q.has_duplicates)
                              - 10 * B(Q.has_constant_columns)
                              - 10 * B(Q.has_high_cardinality_categoricals)
                              -  5 * B(Q.has_many_zero_values)

\* C1 witness: a dataset whose only raised flag is has_duplicates scores 85
C1_Witness ==
    /\ Evaluated
    /\ df.n_rows >= 1
    /\ Q.has_duplicates
    /\ ~Q.has_high_missing
    /\ ~Q.has_constant_columns
    /\ ~Q.has_high_cardinality_categoricals
    /\ ~Q.has_many_zero_values
    /\ Q.quality_score = 85

\* C2: in every report each boolean flag agrees with its detail: the list is
\* non-empty, or duplicate_count > 0, exactly when the flag is raised.
C2_FlagsAgreeWithDetails ==
    Evaluated =>
        /\ Q.has_high_missing = (Len(Q.high_missing_columns) > 0)
        /\ Q.has_duplicates = (Q.duplicate_count > 0)
        /\ Q.has_constant_columns = (Len(Q.constant_columns) > 0)
        /\ Q.has_high_cardinality_categoricals = (Len(Q.high_cardinality_columns) > 0)
        /\ Q.has_many_zero_values = (Len(Q.high_zero_columns) > 0)

\* C2 witness: a report with exactly one high-missing column, one high-zero
\* column and a duplicate row, each with its flag raised
C2_Witness ==
    /\ Evaluated
    /\ Len(Q.high_missing_columns) = 1 /\ Q.has_high_missing
    /\ Len(Q.high_zero_columns) = 1 /\ Q.has_many_zero_values
    /\ Q.duplicate_count = 1 /\ Q.has_duplicates
    /\ Len(Q.high_cardinality_columns) = 0 /\ ~Q.has_high_cardinality_categoricals

\* C3: the score lies in 0..100 for every dataset and threshold set, and is
\* 100 when none of the five flags is raised.
C3_ScoreBounds ==
    Evaluated =>
        /\ Q.quality_score \in 0..100
        /\ (/\ ~Q.has_high_missing
            /\ ~Q.has_duplicates
            /\ ~Q.has_constant_columns
            /\ ~Q.has_high_cardinality_categoricals
            /\ ~Q.has_many_zero_values) => Q.quality_score = 100

\* C3 witness: a dataset of two columns that raises no flag scores 100
C3_Witness ==
    /\ Evaluated
    /\ df.n_rows >= 2
    /\ NCols >= 2
    /\ ~Q.has_high_missing
    /\ ~Q.has_duplicates
    /\ ~Q.has_constant_columns
    /\ ~Q.has_high_cardinality_categoricals
    /\ ~Q.has_many_zero_values
    /\ Q.quality_score = 100

\* C4: with at least one row, high_missing_columns is exactly the columns
\* whose null count divided by n_rows is strictly greater than
\* missing_threshold, in column order; a column exactly at the threshold is
\* not listed.
C4_HighMissingStrict ==
    (Evaluated /\ df.n_rows >= 1) =>
        Q.high_missing_columns =
            InOrder({i \in 1..NCols :
                Nulls(i) * args.missing_threshold.den
                    > args.missing_threshold.num * df.n_rows})

\* C4 witness: one column sits exactly at the threshold and is not listed
\* while a later column lies above it and is listed
C4_Witness ==
    /\ Evaluated
    /\ df.n_rows >= 1
    /\ \E i, j \in 1..NCols :
        /\ i < j
        /\ Nulls(i) > 0
        /\ Nulls(i) * args.missing_threshold.den = args.missing_threshold.num * df.n_rows
        /\ Nulls(j) > Nulls(i)
        /\ Q.high_missing_columns = <<df.columns[j].name>>

\* C5 as stated: a column is listed in constant_columns exactly when its
\* number of distinct values, a null counting as one distinct value, is <= 1.
C5_ConstantCountsNullAsValue ==
    Evaluated =>
        Q.constant_columns =
            InOrder({i \in 1..NCols : Cardinality(DistinctWithNull(i)) <= 1})

\* C5 amended: a column is listed in constant_columns exactly when its number
\* of distinct non-null values is <= 1; nulls are not counted.
C5_ConstantIgnoresNulls ==
    Evaluated =>
        Q.constant_columns =
            InOrder({i \in 1..NCols : Cardinality(DistinctNonNull(i)) <= 1})

\* C5 witness: a column holding one value and a null is listed as constant
C5_Witness ==
    /\ Evaluated
    /\ \E i \in 1..NCols :
        /\ Nulls(i) > 0
        /\ Cardinality(DistinctNonNull(i)) = 1
        /\ \E k \in 1..Len(Q.constant_columns) :
               Q.constant_columns[k] = df.columns[i].name

\* C6: duplicate_count is n_rows minus the number of distinct rows, a null
\* being equal to a null in the same column, and has_duplicates is raised
\* exactly when duplicate_count > 0.
C6_DuplicateCount ==
    Evaluated =>
        /\ Q.duplicate_count =
               df.n_rows - Cardinality({Row(df, r) : r \in 1..df.n_rows})
        /\ Q.has_duplicates = (Q.duplicate_count > 0)

\* C6 witness: three equal rows that hold a null count as two duplicates
C6_Witness ==
    /\ Evaluated
    /\ df.n_rows = 3
    /\ Row(df, 1) = Row(df, 2)
    /\ Row(df, 2) = Row(df, 3)
    /\ \E i \in 1..NCols : Row(df, 1)[i] = NaN
    /\ Q.duplicate_count = 2
    /\ Q.has_duplicates

\* C7: the evaluator on a dataset with zero rows signals an error and
\* returns no report, on the direct call and on the CLI report path.
C7_EmptyDatasetIsRejected ==
    (op \in {"compute_quality_flags", "report"} /\ df.n_rows = 0) =>
        ret.status = "raised"

\* the documented domains of the thresholds
ValidThresholds(a) ==
    /\ Ge(a.missing_threshold, Frac(0, 1))
    /\ Ge(Frac(1, 1), a.missing_threshold)
    /\ Ge(a.zero_threshold, Frac(0, 1))
    /\ Ge(Frac(1, 1), a.zero_threshold)
    /\ a.high_cardinality_threshold >= 1

\* C8: a call with missing_threshold or zero_threshold outside [0,1], or a
\* high_cardinality_threshold that is not a positive integer, is rejected
\* with an error and returns no report.
C8_InvalidThresholdIsRejected ==
    (op = "compute_quality_flags" /\ ~ValidThresholds(args)) =>
        ret.status = "raised"

\* C9: with at least one row, zero_shares has one entry for every numeric
\* column and for no other column, each the 4-decimal value nearest to
\* (count of zeros) / n_rows, nulls counting in the denominator;
\* high_zero_columns is exactly the numeric columns whose zero share is
\* strictly greater than zero_threshold.
C9_ZeroShares ==
    (Evaluated /\ df.n_rows >= 1) =>
        LET Numeric == {i \in 1..NCols : df.columns[i].dtype \in {"int64", "float64"}}
        IN  /\ DOMAIN Q.zero_shares = {df.columns[i].name : i \in Numeric}
            /\ \A i \in Numeric :
                LET v == Q.zero_shares[df.columns[i].name]
                IN  /\ v.den = Scale
                    /\ 2 * Abs(v.num * df.n_rows - Scale * Zeros(i)) <= df.n_rows
            /\ Q.high_zero_columns =
                   InOrder({i \in Numeric :
                       Zeros(i) * args.zero_threshold.den
                           > args.zero_threshold.num * df.n_rows})

\* C9 witness: a numeric column of three rows with a null and one zero is
\* reported with the share 0.3333, beside a non-numeric column
C9_Witness ==
    /\ Evaluated
    /\ df.n_rows = 3
    /\ \E i, j \in 1..NCols :
        /\ df.columns[i].dtype = "float64"
        /\ Nulls(i) = 1
        /\ Zeros(i) = 1
        /\ Q.zero_shares[df.columns[i].name] = Frac(3333, Scale)
        /\ df.columns[j].dtype = "object"
        /\ df.columns[j].name \notin DOMAIN Q.zero_shares

\* C10: high_cardinality_columns is exactly the categorical columns whose
\* number of distinct non-null values is strictly greater than
\* high_cardinality_threshold; a categorical column with exactly threshold
\* distinct values and any numeric column is not listed.
C10_HighCardinalityStrict ==
    Evaluated =>
        Q.high_cardinality_columns =
            InOrder({i \in 1..NCols :
                /\ df.columns[i].dtype \in {"object", "category"}
                /\ Cardinality(DistinctNonNull(i)) > args.high_cardinality_threshold})

\* C10 witness: a categorical column with exactly threshold distinct values
\* is not listed while a categorical column with more is listed
C10_Witness ==
    /\ Evaluated
    /\ \E i, j \in 1..NCols :
        /\ df.columns[i].dtype = "object"
        /\ Nulls(i) > 0
        /\ Cardinality(DistinctNonNull(i)) = args.high_cardinality_threshold
        /\ df.columns[j].dtype = "object"
        /\ Q.high_cardinality_columns = <<df.columns[j].name>>

\* the `report` command has ranked the columns of df
Ranked == op = "report" /\ ret.status = "returned"

\* C13: on a dataset with at least one row get_problematic_columns returns
\* one record for each column whose null count / n_rows is at least
\* min_missing_share, a column exactly at the bound included, and none for
\* any other column; each record's missing_count is the column's null count.
C13_ProblematicInclusive ==
    (Ranked /\ df.n_rows >= 1) =>
        LET P == ret.problematic
            m == args.min_missing_share
        IN  /\ \A i \in 1..NCols :
                   Cardinality({k \in DOMAIN P : P[k].column = df.columns[i].name})
                       = B(Nulls(i) * m.den >= m.num * df.n_rows)
            /\ \A k \in DOMAIN P :
                   \E i \in 1..NCols :
                       /\ P[k].column = df.columns[i].name
                       /\ P[k].missing_count = Nulls(i)

\* C13 witness: with min_missing_share = 0.5 a column with one null in two
\* rows is returned and a column without nulls is not
C13_Witness ==
    /\ Ranked
    /\ df.n_rows = 2
    /\ NCols = 2
    /\ args.min_missing_share = Frac(1, 2)
    /\ Nulls(1) = 0
    /\ Nulls(2) = 1
    /\ Len(ret.problematic) = 1
    /\ ret.problematic[1].column = df.columns[2].name

\* C14: the list returned by get_problematic_columns is sorted by descending
\* null count / n_rows: a column with a larger missing share never comes
\* after one with a smaller share, and columns with equal missing share come
\* in column order.
C14_SortedByMissingShare ==
    (op = "get_problematic_columns" /\ ret.status = "returned") =>
        LET P == ret.problematic
            Index(nm) == CHOOSE i \in DOMAIN df.counts : df.counts[i].column = nm
        IN  \A k, l \in DOMAIN P :
                k < l =>
                    /\ P[k].missing_count >= P[l].missing_count
                    /\ P[k].missing_count = P[l].missing_count
                           => Index(P[k].column) < Index(P[l].column)

\* C18: compute_quality_flags and get_problematic_columns are read-only: a
\* call of the evaluator or of the report that runs both leaves the dataset
\* (rows, values, column order, dtypes) and request_stats as they were.
C18_ReadOnly ==
    [][op' \in {"compute_quality_flags", "report"}
          => df' = df /\ request_stats' = request_stats]_vars

\* C18 witness: the evaluator has returned a report on a dataset that has
\* duplicated rows and a missing value, and the dataset still has them
C18_Witness ==
    /\ op = "compute_quality_flags"
    /\ ret.status = "returned"
    /\ df.n_rows >= 2
    /\ Q.has_duplicates
    /\ Q.duplicate_count = Cardinality({r \in 1..df.n_rows : duplicated(df)[r]})
    /\ \E i \in 1..NCols : Nulls(i) > 0
    /\ request_stats = InitialStats

\* C19: load_csv with a path that names no file raises FileNotFoundError
\* before pd.read_csv is called and returns no dataset; the `report` command
\* that loads through it then produces no report.
C19_MissingFileRaises ==
    /\ (op = "load_csv" /\ ~args.exists) =>
           /\ ret.status = "raised"
           /\ ret.error = "FileNotFoundError"
           /\ ~ret.parsed
           /\ "df" \notin DOMAIN ret
    /\ (op = "report" /\ ~args.exists) =>
           /\ ret.status = "raised"
           /\ ret.error = "FileNotFoundError"
           /\ "quality" \notin DOMAIN ret

\* C19 witness: load_csv was called with a path that names no file, while a
\* dataset with rows was there to be parsed, and it raised
C19_Witness ==
    /\ op = "load_csv"
    /\ ~args.exists
    /\ df.n_rows >= 1
    /\ ret.status = "raised"

\* C11: once all N concurrent requests have finished, total_requests is N
\* and endpoint_calls[e] is the number of requests made to e, for every
\* interleaving of the handlers: no increment is lost.
C11_NoLostIncrement ==
    (\A i \in DOMAIN handlers : handlers[i].pc = "done") =>
        /\ request_stats.total_requests = Len(handlers)
        /\ \A e \in CountedEndpoints :
               dict_get(request_stats.endpoint_calls, e)
                   = Cardinality({i \in DOMAIN handlers : handlers[i].endpoint = e})

\* an upload handler has answered the last request
Uploaded == op \in {"POST /quality-from-csv", "POST /quality-flags-from-csv"}

\* the upload of the last request must be refused: its content type is not
\* accepted, its body does not parse, or the parsed frame has no row or no
\* column
BadUpload ==
    \/ args.content_type \notin {"text/csv", "application/vnd.ms-excel",
                                  "application/octet-stream"}
    \/ ~args.body.parses
    \/ args.body.frame.n_rows = 0
    \/ Len(args.body.frame.columns) = 0

\* C12: both upload endpoints answer a request with an unaccepted content
\* type, an unparsable body or an empty parsed DataFrame with 400 without
\* calling compute_quality_flags; the evaluator is only called on a parsed
\* dataset that is not empty.
C12_UploadRejectedBeforeEvaluator ==
    Uploaded =>
        /\ BadUpload => (ret.status_code = 400 /\ ret.core_calls = 0)
        /\ ret.core_calls > 0 => ~BadUpload

\* C12 witness: /quality-flags-from-csv got a text/csv body that parses to a
\* header without rows and answered 400 without calling the evaluator
C12_Witness ==
    /\ op = "POST /quality-flags-from-csv"
    /\ args.content_type = "text/csv"
    /\ args.body.parses
    /\ args.body.frame.n_rows = 0
    /\ ret.status_code = 400
    /\ ret.core_calls = 0
    /\ request_stats.errors >= 1

\* 100 * den times the unclamped /quality score of the last request, where
\* den is the denominator of its max_missing_share
RawScore ==
    LET m == args.max_missing_share
    IN  100 * m.den - 100 * m.num
        - m.den * ( 20 * B(args.n_rows < 1000)
                  + 10 * B(args.n_cols > 100)
                  + 10 * B(args.numeric_cols = 0 /\ args.categorical_cols > 0)
                  +  5 * B(args.categorical_cols = 0 /\ args.numeric_cols > 0) )

\* RawScore clamped to [0, 1] in the same unit
ClampedScore ==
    LET one == 100 * args.max_missing_share.den
    IN  IF RawScore < 0 THEN 0 ELSE IF RawScore > one THEN one ELSE RawScore

\* C15: a valid POST /quality returns 1.0 - max_missing_share - 0.2 (if
\* n_rows < 1000) - 0.1 (if n_cols > 100) - 0.1 (if no numeric but some
\* categorical columns) - 0.05 (if no categorical but some numeric columns),
\* clamped to [0, 1]; ok_for_model holds exactly when that score is >= 0.7.
C15_FeatureScore ==
    (op = "POST /quality" /\ ret.status_code = 200) =>
        LET one == 100 * args.max_missing_share.den
            score == ret.quality_score
        IN  /\ score.den > 0
            /\ score.num * one = ClampedScore * score.den
            /\ 0 <= score.num /\ score.num <= score.den
            /\ ret.ok_for_model <=> (10 * ClampedScore >= 7 * one)

\* C15 witness: 1000 rows, 100 columns, both column kinds and
\* max_missing_share 0.3 score exactly 0.7 and are ok for the model
C15_Witness ==
    /\ op = "POST /quality"
    /\ ret.status_code = 200
    /\ args.n_rows = 1000
    /\ args.n_cols = 100
    /\ args.max_missing_share = Frac(3, 10)
    /\ 10 * ClampedScore = 7 * 100 * args.max_missing_share.den
    /\ ret.ok_for_model

\* the full report on the file of the last upload
FullReport ==
    compute_quality_flags(args.body.frame, DefaultMissingThreshold,
                          DefaultHighCardinalityThreshold, DefaultZeroThreshold)

\* C16: the answer of /quality-from-csv is a projection of the full report:
\* quality_score is the integer score / 100 and lies in [0, 1], flags holds
\* exactly the five has_* booleans with the report's values, and
\* ok_for_model holds exactly when the integer score is >= 70.
C16_NormalizedIsProjection ==
    (op = "POST /quality-from-csv" /\ ret.status_code = 200) =>
        /\ ret.quality_score.den > 0
        /\ ret.quality_score.num * 100
               = FullReport.quality_score * ret.quality_score.den
        /\ 0 <= ret.quality_score.num
        /\ ret.quality_score.num <= ret.quality_score.den
        /\ DOMAIN ret.flags = {"has_high_missing", "has_duplicates",
                               "has_constant_columns",
                               "has_high_cardinality_categoricals",
                               "has_many_zero_values"}
        /\ \A k \in DOMAIN ret.flags : ret.flags[k] = FullReport[k]
        /\ ret.ok_for_model <=> FullReport.quality_score >= 70

\* C16 witness: an uploaded file whose report scores exactly 70, with two
\* flags raised and three not, is answered as ok for the model
C16_Witness ==
    /\ op = "POST /quality-from-csv"
    /\ ret.status_code = 200
    /\ FullReport.quality_score = 70
    /\ ret.flags.has_high_missing
    /\ ret.flags.has_constant_columns
    /\ ~ret.flags.has_duplicates
    /\ ret.ok_for_model

\* C20: a POST /quality whose body has a negative n_rows, n_cols,
\* numeric_cols or categorical_cols, or a max_missing_share outside [0, 1],
\* is answered 422 and no quality_score or ok_for_model is computed for it.
C20_InvalidBodyIs422 ==
    ( /\ op = "POST /quality"
      /\ \/ args.n_rows < 0
         \/ args.n_cols < 0
         \/ args.numeric_cols < 0
         \/ args.categorical_cols < 0
         \/ args.max_missing_share.num < 0
         \/ args.max_missing_share.num > args.max_missing_share.den ) =>
        /\ ret.status_code = 422
        /\ "quality_score" \notin DOMAIN ret
        /\ "ok_for_model" \notin DOMAIN ret

\* C20 witness: after one valid request a body with n_rows = -1 was answered
\* 422
C20_Witness ==
    /\ op = "POST /quality"
    /\ args.n_rows = -1
    /\ ret.status_code = 422
    /\ request_stats.total_requests = 1

\* all five flags of the report are raised
AllFiveFlags ==
    /\ Q.has_high_missing
    /\ Q.has_duplicates
    /\ Q.has_constant_columns
    /\ Q.has_high_cardinality_categoricals
    /\ Q.has_many_zero_values

\* C22: the floor max(0, ...) of the score is never active: for every
\* dataset and thresholds quality_score >= 40, and it is 40 exactly when all
\* five flags are raised.
C22_ScoreAtLeastForty ==
    Evaluated =>
        /\ Q.quality_score >= 40
        /\ Q.quality_score = 40 <=> AllFiveFlags

\* C22 witness: a dataset that raises all five flags and scores 40
C22_Witness ==
    /\ Evaluated
    /\ df.n_rows >= 1
    /\ AllFiveFlags
    /\ Q.quality_score = 40

\* zero_threshold of the last call lies in [0, 1]
ZeroThresholdInUnit ==
    /\ 0 <= args.zero_threshold.num
    /\ args.zero_threshold.num <= args.zero_threshold.den

\* the numeric columns of df
NumericColumns == {i \in 1..NCols : df.columns[i].dtype \in {"int64", "float64"}}

\* column i is listed in high_zero_columns
ListedHighZero(i) ==
    \E k \in DOMAIN Q.high_zero_columns :
        Q.high_zero_columns[k] = df.columns[i].name

\* C28 (as claimed): for zero_threshold in [0, 1] a numeric column is in
\* high_zero_columns if and only if its reported, 4-decimal rounded
\* zero_shares entry is strictly greater than zero_threshold.
C28_ReportedShareDecides ==
    (Evaluated /\ ZeroThresholdInUnit) =>
        \A i \in NumericColumns :
            ListedHighZero(i)
                <=> Gt(Q.zero_shares[df.columns[i].name], args.zero_threshold)

\* C28 (amended): for zero_threshold in [0, 1] a numeric column is in
\* high_zero_columns if and only if its unrounded share zeros / n_rows is
\* strictly greater than zero_threshold; the reported rounded share
\* disagrees with that decision only where the unrounded share lies within
\* 0.00005 of the threshold.
C28_UnroundedShareDecides ==
    (Evaluated /\ ZeroThresholdInUnit) =>
        \A i \in NumericColumns :
            LET t == args.zero_threshold
                reported == Q.zero_shares[df.columns[i].name]
            IN  /\ ListedHighZero(i) <=> Zeros(i) * t.den > t.num * df.n_rows
                /\ (ListedHighZero(i) <=> ~Gt(reported, t)) =>
                       2 * Scale * Abs(Zeros(i) * t.den - t.num * df.n_rows)
                           <= df.n_rows * t.den

\* C28 witness: one zero in three rows against zero_threshold 0.3333: the
\* column is listed while its reported share 0.3333 is not above the
\* threshold
C28_Witness ==
    /\ Evaluated
    /\ args.zero_threshold = Frac(3333, Scale)
    /\ df.n_rows = 3
    /\ \E i \in NumericColumns :
           /\ Zeros(i) = 1
           /\ ListedHighZero(i)
           /\ Q.zero_shares[df.columns[i].name] = Frac(3333, Scale)

\* C30: on a dataset of exactly one row and at least one column every
\* column is reported constant, has_constant_columns is true,
\* duplicate_count is 0 and quality_score is at most 90.
C30_OneRowIsConstant ==
    (Evaluated /\ df.n_rows = 1 /\ NCols >= 1) =>
        /\ Q.constant_columns = columns(df)
        /\ Q.has_constant_columns
        /\ Q.duplicate_count = 0
        /\ ~Q.has_duplicates
        /\ Q.quality_score <= 90

\* C30 witness: a one-row dataset of two columns, one of them a null, whose
\* only raised flags are constant columns and high missing
C30_Witness ==
    /\ Evaluated
    /\ df.n_rows = 1
    /\ NCols = 2
    /\ Nulls(1) = 1
    /\ Nulls(2) = 0
    /\ Q.constant_columns = columns(df)
    /\ Q.quality_score <= 90

\* C21: get_missing_info returns as total_missing the number of null cells
\* of the dataset, as details one entry for each column with at least one
\* null and for no other column, each with the column's null count, and as
\* columns_with_missing the number of entries of details.
C21_MissingInfo ==
    op = "get_missing_info" =>
        LET info == ret.info
        IN  /\ info.total_missing =
                   Cardinality({c \in (1..NCols) \X (1..df.n_rows) :
                                   df.columns[c[1]].values[c[2]] = NaN})
            /\ DOMAIN info.details =
                   {df.columns[i].name : i \in {j \in 1..NCols : Nulls(j) >= 1}}
            /\ \A i \in 1..NCols :
                   Nulls(i) >= 1 => info.details[df.columns[i].name].count = Nulls(i)
            /\ info.columns_with_missing = Cardinality(DOMAIN info.details)

\* C21 witness: of two columns one has two nulls and the other none
C21_Witness ==
    /\ op = "get_missing_info"
    /\ NCols = 2
    /\ Nulls(1) = 0
    /\ Nulls(2) = 2
    /\ ret.info.total_missing = 2
    /\ ret.info.columns_with_missing = 1

\* the names in a sequence of names
RangeOf(names) == {names[k] : k \in DOMAIN names}

\* C29: with one bound t as missing_threshold and as min_missing_share,
\* every column of high_missing_columns is returned by
\* get_problematic_columns, and the columns the ranker returns beyond them
\* are exactly the columns whose missing share equals t.
C29_RankerContainsHighMissing ==
    op = "flag_and_rank" =>
        LET t == args.missing_threshold
            high == RangeOf(Q.high_missing_columns)
            ranked == {ret.problematic[k].column : k \in DOMAIN ret.problematic}
        IN  /\ high \subseteq ranked
            /\ ranked \ high =
                   {df.columns[i].name :
                       i \in {j \in 1..NCols :
                                 /\ df.n_rows >= 1
                                 /\ Nulls(j) * t.den = t.num * df.n_rows}}

\* C29 witness: with t = 0.5 and two rows, a column with two nulls is in
\* both results and a column with one null is returned by the ranker alone
C29_Witness ==
    /\ op = "flag_and_rank"
    /\ args.missing_threshold = Frac(1, 2)
    /\ df.n_rows = 2
    /\ NCols = 2
    /\ Nulls(1) = 2
    /\ Nulls(2) = 1
    /\ Q.high_missing_columns = <<df.columns[1].name>>
    /\ Len(ret.problematic) = 2

\* the last request was a POST /quality or POST /quality-from-csv answered 200
ScoredOk ==
    /\ op \in {"POST /quality", "POST /quality-from-csv"}
    /\ ret.status_code = 200

\* C24: last_ok_for_model is None until a /quality or /quality-from-csv
\* request has succeeded, and from then on it is the ok_for_model of the
\* latest such response; /quality-flags-from-csv, /health, /metrics and
\* failed requests leave it as it was.
C24_LastOkIsLatestDecision ==
    /\ request_stats.last_ok_for_model = None
    /\ [][IF ScoredOk'
          THEN request_stats'.last_ok_for_model = <<ret'.ok_for_model>>
          ELSE request_stats'.last_ok_for_model
                   = request_stats.last_ok_for_model]_vars

\* C24 witness: /quality-flags-from-csv has succeeded after a scored request
\* that was not ok for the model, and last_ok_for_model is still False
C24_Witness ==
    /\ op = "POST /quality-flags-from-csv"
    /\ ret.status_code = 200
    /\ ret.quality_score = 100
    /\ request_stats.last_ok_for_model = <<FALSE>>

\* C25: with requests handled one at a time total_requests is the sum of
\* the values of endpoint_calls, and 0 <= errors <= total_requests.
C25_CountersAgree ==
    /\ DOMAIN request_stats.endpoint_calls \subseteq CountedEndpoints
    /\ request_stats.total_requests =
             dict_get(request_stats.endpoint_calls, "quality")
           + dict_get(request_stats.endpoint_calls, "quality-from-csv")
           + dict_get(request_stats.endpoint_calls, "quality-flags-from-csv")
    /\ 0 <= request_stats.errors
    /\ request_stats.errors <= request_stats.total_requests

\* C25 witness: one request to each upload endpoint, one of them refused
C25_Witness ==
    /\ request_stats.total_requests = 2
    /\ DOMAIN request_stats.endpoint_calls
           = {"quality-from-csv", "quality-flags-from-csv"}
    /\ request_stats.errors = 1

\* C26: an upload request answered 400 adds exactly 1 to total_requests and
\* to errors and leaves total_latency_ms and last_ok_for_model unchanged;
\* an upload request that succeeds leaves errors unchanged.
C26_RejectedUploadCounts ==
    [][Uploaded' =>
          IF ret'.status_code = 400
          THEN /\ request_stats'.total_requests = request_stats.total_requests + 1
               /\ request_stats'.errors = request_stats.errors + 1
               /\ request_stats'.total_latency_ms = request_stats.total_latency_ms
               /\ request_stats'.last_ok_for_model = request_stats.last_ok_for_model
          ELSE request_stats'.errors = request_stats.errors]_vars

\* C26 witness: an unparsable upload was refused after a scored request
C26_Witness ==
    /\ op = "POST /quality-from-csv"
    /\ ret.status_code = 400
    /\ ret.detail = "read_csv failed"
    /\ request_stats.total_requests = 2
    /\ request_stats.errors = 1
    /\ request_stats.total_latency_ms >= 1
    /\ request_stats.last_ok_for_model # None

\* C27: GET /health, GET /metrics and a POST /quality answered 422 leave
\* every field of request_stats unchanged.
C27_UncountedRequests ==
    [][(\/ op' \in {"GET /health", "GET /metrics"}
        \/ (op' = "POST /quality" /\ ret'.status_code = 422))
          => request_stats' = request_stats]_vars

\* C27 witness: /metrics reports two counted requests, one of them an
\* error, and request_stats still holds the same numbers
C27_Witness ==
    /\ op = "GET /metrics"
    /\ ret.total_requests = 2
    /\ ret.errors = 1
    /\ request_stats.total_requests = 2
    /\ request_stats.errors = 1
    /\ request_stats.total_latency_ms >= 1

\* the full report on the file that request i uploaded
ReportOfFile(i) ==
    compute_quality_flags(handlers[i].file.body.frame, DefaultMissingThreshold,
                          DefaultHighCardinalityThreshold, DefaultZeroThreshold)

\* C23: whatever the order in which concurrent upload requests run, the
\* score and the flags answered to a request are those of
\* compute_quality_flags on the file of that request alone.
C23_OwnFileDecides ==
    \A i \in DOMAIN handlers :
        (handlers[i].pc = "done" /\ handlers[i].response.status_code = 200) =>
            LET resp == handlers[i].response
                q == ReportOfFile(i)
            IN  /\ \A k \in DOMAIN resp.flags : resp.flags[k] = q[k]
                /\ IF handlers[i].endpoint = "quality-from-csv"
                   THEN /\ resp.quality_score.num * 100
                               = q.quality_score * resp.quality_score.den
                        /\ resp.ok_for_model <=> q.quality_score >= 70
                   ELSE resp.quality_score = q.quality_score

\* C23 witness: two uploads with different files have both been answered,
\* each with the score of its own file
C23_Witness ==
    /\ Len(handlers) = 2
    /\ handlers[1].pc = "done"
    /\ handlers[2].pc = "done"
    /\ handlers[1].endpoint = "quality-flags-from-csv"
    /\ handlers[2].endpoint = "quality-flags-from-csv"
    /\ handlers[1].response.status_code = 200
    /\ handlers[2].response.status_code = 200
    /\ handlers[1].response.quality_score = 100
    /\ handlers[2].response.quality_score = 55
    /\ dict_get(request_stats.endpoint_calls, "quality-flags-from-csv") = 2

=============================================================================
